---- MODULE Spec2Model ----
(***************************************************************************)
(* torch/sparse/semi_structured.py: the SparseSemiStructuredTensor wrapper *)
(* (a compressed 2:4 buffer plus a transposed flag), its                   *)
(* __torch_dispatch__ handler and the to_sparse_semi_structured factory.   *)
(*                                                                         *)
(* Tensors are symbolic.  A dense tensor is an identity plus a "viewed     *)
(* through .t()" bit; a compressed instance is an index into insts; a      *)
(* buffer reference is an index into bufs.  Python's True / False / None   *)
(* are the strings "True" / "False" / "None", because the factory takes    *)
(* transposed: Optional[bool] and stores it unchecked.                     *)
(*                                                                         *)
(* torch._structured_sparse_linear is external.  A call that hands it a    *)
(* SparseSemiStructuredTensor re-enters __torch_dispatch__ with the kernel *)
(* operator as func (the same re-entry that makes input_A.values() reach   *)
(* the aten.values branch), which matches no branch and raises at line     *)
(* 216.  A call with dense operands reaches the kernel, which returns or   *)
(* raises (kernelOk).                                                      *)
(*                                                                         *)
(* An error raised by an operation ends the run (Running): errors change   *)
(* nothing but the record of the last operation.                           *)
(*                                                                         *)
(* Line 46 spells the default of __new__'s transposed parameter "Flase",   *)
(* a name Python evaluates when the class body runs (NameError at import). *)
(* No call in the file relies on that default (lines 132, 142 and 360 pass *)
(* all three arguments).  The model describes the function bodies as       *)
(* written, that is, the module with that default bound.                   *)
(***************************************************************************)
EXTENDS Integers, Sequences, FiniteSets, TLC

VARIABLES insts, derived, bufs, warned, last

vars == <<insts, derived, bufs, warned, last>>

(* ------------------------------ bounds -------------------------------- *)
MaxInst == 3
MaxBufs == 2
MaxCtorInst == 1
MaxMatInst == 2

(* --------------------------- configuration ---------------------------- *)
SEMI_STRUCTURED_SPARSE_CONFIG(compression_factor, n, min_size) ==
    [compression_factor |-> compression_factor, n |-> n, min_size |-> min_size]

DTYPE_TO_SEMI_STRUCTURED_SPARSE_CONFIG ==
    [float16 |-> SEMI_STRUCTURED_SPARSE_CONFIG(9, 2, 64),
     int8    |-> SEMI_STRUCTURED_SPARSE_CONFIG(10, 2, 128)]

element_size(dtype) ==
    CASE dtype = "float16" -> 2
      [] dtype = "int8"    -> 1
      [] OTHER             -> 4

(* ------------------------- Python truth values ------------------------ *)
PyFlags == {"True", "False", "None"}

Truthy(v) == v = "True"

PyNot(v) == IF Truthy(v) THEN "False" ELSE "True"

Min(a, b) == IF a < b THEN a ELSE b

(* ------------------------------ operands ------------------------------ *)
Dense(i) == [kind |-> "dense", id |-> i, t |-> FALSE]

SparseRef(i) == [kind |-> "sparse", id |-> i, t |-> FALSE]

NoneArg == [kind |-> "None", id |-> 0, t |-> FALSE]

Absent == [kind |-> "absent", id |-> 0, t |-> FALSE]

isinstance(a) == a.kind = "sparse"

(* ------------------------------- views -------------------------------- *)
NoView ==
    [kind |-> "none", buf |-> 0, start |-> 0, stop |-> 0,
     shape |-> <<0, 0>>, dtype |-> "none"]

ViewError == [NoView EXCEPT !.kind = "view-error"]

ViewUnsupported == [NoView EXCEPT !.kind = "unsupported-operator"]

SparseSemiStructuredTensor(custom_shape, compressed_tensor, transposed) ==
    [shape |-> custom_shape, compressed_tensor |-> compressed_tensor,
     transposed |-> transposed]

dtype_of(x) == bufs[x.compressed_tensor].dtype

\* compressed_tensor[:num_kept_elements].view(m, k // 2)
values(x) ==
    LET m == x.shape[1]
        k == x.shape[2]
        num_kept_elements == (m * k) \div 2
        len == bufs[x.compressed_tensor].len
        stop == Min(num_kept_elements, len)
    IN  IF stop = m * (k \div 2)
        THEN [kind |-> "view", buf |-> x.compressed_tensor, start |-> 0,
              stop |-> stop, shape |-> <<m, k \div 2>>, dtype |-> dtype_of(x)]
        ELSE ViewError

\* indices with the int8 metadata reinterpreted as 16-bit integers
indices_int16_for_int8(x) ==
    LET m == x.shape[1]
        k == x.shape[2]
        num_kept_elements == (m * k) \div 2
        len == bufs[x.compressed_tensor].len
        count == len - num_kept_elements
    IN  [kind |-> "view", buf |-> x.compressed_tensor,
         start |-> num_kept_elements, stop |-> len,
         shape |-> <<m, IF dtype_of(x) = "int8"
                        THEN (count \div m) \div 2 ELSE count \div m>>,
         dtype |-> "int16"]

\* compressed_tensor[num_kept_elements:].view(m, -1), then .view(int32 / int16)
indices(x) ==
    LET m == x.shape[1]
        k == x.shape[2]
        num_kept_elements == (m * k) \div 2
        len == bufs[x.compressed_tensor].len
        start == Min(num_kept_elements, len)
        count == len - start
        cols == IF m > 0 THEN count \div m ELSE 0
        metadata(c, dt) ==
            [kind |-> "view", buf |-> x.compressed_tensor, start |-> start,
             stop |-> len, shape |-> <<m, c>>, dtype |-> dt]
    IN  IF m <= 0 \/ count <= 0 \/ count % m # 0
        THEN ViewError
        ELSE IF dtype_of(x) = "int8"
        THEN IF cols % 4 = 0 THEN metadata(cols \div 4, "int32") ELSE ViewError
        ELSE IF dtype_of(x) = "float16"
        THEN metadata(cols, "int16")
        ELSE ViewUnsupported

(* ------------------------ rendering, the error ------------------------ *)
Rendered(kind, id, t, shape, transposed, vals, metadata) ==
    [kind |-> kind, id |-> id, t |-> t, shape |-> shape,
     transposed |-> transposed, values |-> vals, metadata |-> metadata]

\* f"{arg}": __repr__ for an instance, the tensor or view itself otherwise
repr(a, heap) ==
    IF a.kind = "sparse"
    THEN LET x == heap[a.id]
         IN  Rendered("SparseSemiStructuredTensor", 0, FALSE, x.shape,
                      x.transposed, values(x), indices(x))
    ELSE IF a.kind \in {"view", "view-error"}
    THEN Rendered(a.kind, 0, FALSE, a.shape, "", a, NoView)
    ELSE Rendered(a.kind, a.id, a.t, <<0, 0>>, "", NoView, NoView)

NoPayload == [func |-> "", args |-> <<>>]

\* error_string that renders only the first argument
error_string_first_arg_only(func, args, heap) ==
    [func |-> func, args |-> <<repr(args[1], heap)>>]

\* lines 212-215: the operator, then every positional argument
error_string(func, args, heap) ==
    [func |-> func, args |-> [i \in 1..Len(args) |-> repr(args[i], heap)]]

(* --------------------------- handler results -------------------------- *)
NoResult == [kind |-> "none", ref |-> 0, t |-> FALSE, view |-> NoView]

InstResult(j) == [kind |-> "instance", ref |-> j, t |-> FALSE, view |-> NoView]

\* the dense result of the (single) kernel call, t: returned through .t()
DenseResult(t) == [kind |-> "dense", ref |-> 0, t |-> t, view |-> NoView]

ViewResult(v) == [kind |-> "view", ref |-> 0, t |-> FALSE, view |-> v]

Out(status, result, calls, payload, created) ==
    [status |-> status, result |-> result, calls |-> calls,
     payload |-> payload, created |-> created]

\* lines 212-216
raise_NotImplementedError(func, args, heap) ==
    Out("unsupported-operator", NoResult, <<>>, error_string(func, args, heap),
        <<>>)

KernelFunc == "aten._structured_sparse_linear.default"

KernelCall(input, vals, meta, bias) ==
    [dense |-> input, values |-> vals, indices |-> meta, bias |-> bias]

\* torch._structured_sparse_linear(input, values, indices, bias=bias)
structured_sparse_linear(input, vals, meta, bias, kernelOk, heap) ==
    IF vals.kind # "view" \/ meta.kind # "view"
    THEN Out(IF vals.kind # "view" THEN vals.kind ELSE meta.kind,
             NoResult, <<>>, NoPayload, <<>>)
    ELSE IF isinstance(input) \/ isinstance(bias)
    THEN raise_NotImplementedError(KernelFunc, <<input, vals, meta>>, heap)
    ELSE Out(IF kernelOk THEN "ok" ELSE "kernel-error", NoResult,
             <<KernelCall(input, vals, meta, bias)>>, NoPayload, <<>>)

(* --------------------- __torch_dispatch__ branches -------------------- *)
Created(inst, op, from) == [inst |-> inst, op |-> op, from |-> from]

\* the instances alive once `created` exist
Heap(created) == insts \o [i \in 1..Len(created) |-> created[i].inst]

FallThrough == Out("fallthrough", NoResult, <<>>, NoPayload, <<>>)

\* detach that flips the flag, like aten.t
detach_flips_flag(args) ==
    LET x == insts[args[1].id]
    IN  Out("ok", InstResult(Len(insts) + 1), <<>>, NoPayload,
            <<Created(SparseSemiStructuredTensor(
                          x.shape, x.compressed_tensor, PyNot(x.transposed)),
                      "detach", args[1].id)>>)

\* lines 131-136
detach(args) ==
    LET x == insts[args[1].id]
    IN  Out("ok", InstResult(Len(insts) + 1), <<>>, NoPayload,
            <<Created(SparseSemiStructuredTensor(
                          x.shape, x.compressed_tensor, x.transposed),
                      "detach", args[1].id)>>)

\* lines 141-146
transpose(args) ==
    LET x == insts[args[1].id]
    IN  Out("ok", InstResult(Len(insts) + 1), <<>>, NoPayload,
            <<Created(SparseSemiStructuredTensor(
                          x.shape, x.compressed_tensor, PyNot(x.transposed)),
                      "t", args[1].id)>>)

\* input_B.t() at line 173: a dense view, or aten.t re-dispatched
t_operand(b) ==
    IF isinstance(b)
    THEN [operand |-> SparseRef(Len(insts) + 1),
          created |-> transpose(<<b>>).created]
    ELSE [operand |-> [b EXCEPT !.t = ~b.t], created |-> <<>>]

\* result, _ = kernel(...); return result   /   return transposed_result.t()
Returned(k, transposed_back, created) ==
    Out(k.status,
        IF k.status = "ok" THEN DenseResult(transposed_back) ELSE NoResult,
        k.calls, k.payload, created)

\* lines 149-165
addmm(args, kernelOk) ==
    LET bias == args[1]
        input_A == args[2]
        input_B == args[3]
    IN  IF isinstance(input_B) /\ Truthy(insts[input_B.id].transposed)
        THEN Returned(structured_sparse_linear(
                          input_A, values(insts[input_B.id]),
                          indices(insts[input_B.id]), bias, kernelOk, insts),
                      FALSE, <<>>)
        ELSE FallThrough

\* mm whose sparse-left branch returns the kernel result without .t()
mm_no_transpose_back(args, kernelOk) ==
    LET input_A == args[1]
        input_B == args[2]
    IN  IF isinstance(input_A) /\ ~Truthy(insts[input_A.id].transposed)
        THEN LET bt == t_operand(input_B)
             IN  Returned(structured_sparse_linear(
                              bt.operand, values(insts[input_A.id]),
                              indices(insts[input_A.id]), Absent, kernelOk,
                              Heap(bt.created)),
                          FALSE, bt.created)
        ELSE IF isinstance(input_B) /\ Truthy(insts[input_B.id].transposed)
        THEN Returned(structured_sparse_linear(
                          input_A, values(insts[input_B.id]),
                          indices(insts[input_B.id]), Absent, kernelOk, insts),
                      FALSE, <<>>)
        ELSE FallThrough

\* mm whose sparse-left branch does not look at the transposed flag
mm_ignores_flag(args, kernelOk) ==
    LET input_A == args[1]
        input_B == args[2]
    IN  IF isinstance(input_A)
        THEN LET bt == t_operand(input_B)
             IN  Returned(structured_sparse_linear(
                              bt.operand, values(insts[input_A.id]),
                              indices(insts[input_A.id]), Absent, kernelOk,
                              Heap(bt.created)),
                          TRUE, bt.created)
        ELSE IF isinstance(input_B) /\ Truthy(insts[input_B.id].transposed)
        THEN Returned(structured_sparse_linear(
                          input_A, values(insts[input_B.id]),
                          indices(insts[input_B.id]), Absent, kernelOk, insts),
                      FALSE, <<>>)
        ELSE FallThrough

\* lines 168-181
mm(args, kernelOk) ==
    LET input_A == args[1]
        input_B == args[2]
    IN  IF isinstance(input_A) /\ ~Truthy(insts[input_A.id].transposed)
        THEN LET bt == t_operand(input_B)
             IN  Returned(structured_sparse_linear(
                              bt.operand, values(insts[input_A.id]),
                              indices(insts[input_A.id]), Absent, kernelOk,
                              Heap(bt.created)),
                          TRUE, bt.created)
        ELSE IF isinstance(input_B) /\ Truthy(insts[input_B.id].transposed)
        THEN Returned(structured_sparse_linear(
                          input_A, values(insts[input_B.id]),
                          indices(insts[input_B.id]), Absent, kernelOk, insts),
                      FALSE, <<>>)
        ELSE FallThrough

\* linear that, like addmm, fires only for a transposed weight
linear_requires_transposed(args, kernelOk) ==
    IF Len(args) # 3
    THEN Out("ValueError", NoResult, <<>>, NoPayload, <<>>)
    ELSE IF isinstance(args[2]) /\ Truthy(insts[args[2].id].transposed)
    THEN Returned(structured_sparse_linear(
                      args[1], values(insts[args[2].id]),
                      indices(insts[args[2].id]), args[3], kernelOk, insts),
                  FALSE, <<>>)
    ELSE FallThrough

\* lines 186-192; the three-way unpacking at line 187 raises on two operands
linear(args, kernelOk) ==
    IF Len(args) # 3
    THEN Out("ValueError", NoResult, <<>>, NoPayload, <<>>)
    ELSE LET input_tensor == args[1]
             weight == args[2]
             bias == args[3]
         IN  IF isinstance(weight)
             THEN Returned(structured_sparse_linear(
                               input_tensor, values(insts[weight.id]),
                               indices(insts[weight.id]), bias, kernelOk, insts),
                           FALSE, <<>>)
             ELSE FallThrough

ViewOut(v) ==
    IF v.kind = "view"
    THEN Out("ok", ViewResult(v), <<>>, NoPayload, <<>>)
    ELSE IF v.kind = "unsupported-operator"
    THEN FallThrough
    ELSE Out(v.kind, NoResult, <<>>, NoPayload, <<>>)

OrElse(r, func, args) ==
    IF r.status = "fallthrough"
    THEN raise_NotImplementedError(func, args, insts)
    ELSE r

\* lines 111-216; kwargs is never read
torch_dispatch(func, args, kwargs, kernelOk) ==
    CASE func = "aten.detach.default"  -> detach(args)
      [] func = "aten.t.default"       -> transpose(args)
      [] func = "aten.addmm.default"   -> OrElse(addmm(args, kernelOk), func, args)
      [] func = "aten.mm.default"      -> OrElse(mm(args, kernelOk), func, args)
      [] func = "aten.linear.default"  -> OrElse(linear(args, kernelOk), func, args)
      [] func = "aten.values.default"  ->
             OrElse(ViewOut(values(insts[args[1].id])), func, args)
      [] func = "aten.indices.default" ->
             OrElse(ViewOut(indices(insts[args[1].id])), func, args)
      [] OTHER                         ->
             raise_NotImplementedError(func, args, insts)

(* ---------------------- to_sparse_semi_structured --------------------- *)
Tensor(is_cuda, dim, dtype, shape) ==
    [is_cuda |-> is_cuda, dim |-> dim, dtype |-> dtype, shape |-> shape]

NoTensor == Tensor(FALSE, 0, "none", <<0, 0>>)

\* validate with the device check ahead of the mask check
validate_device_first(original_tensor, mask) ==
    IF ~original_tensor.is_cuda THEN "unsupported-device"
    ELSE IF mask = "None" THEN "missing-mask"
    ELSE IF original_tensor.dim # 2 THEN "unsupported-rank"
    ELSE IF original_tensor.dtype \notin DOMAIN DTYPE_TO_SEMI_STRUCTURED_SPARSE_CONFIG
    THEN "unsupported-dtype"
    ELSE LET m == original_tensor.shape[1]
             n == original_tensor.shape[2]
             min_size ==
                 DTYPE_TO_SEMI_STRUCTURED_SPARSE_CONFIG[original_tensor.dtype].min_size
         IN  IF m < min_size \/ m % min_size # 0
                \/ n < min_size \/ n % min_size # 0
             THEN "unsupported-shape"
             ELSE "ok"

\* validate whose shape check forgets the multiple-of-min_size test
validate_no_multiple_check(original_tensor, mask) ==
    IF mask = "None" THEN "missing-mask"
    ELSE IF ~original_tensor.is_cuda THEN "unsupported-device"
    ELSE IF original_tensor.dim # 2 THEN "unsupported-rank"
    ELSE IF original_tensor.dtype \notin DOMAIN DTYPE_TO_SEMI_STRUCTURED_SPARSE_CONFIG
    THEN "unsupported-dtype"
    ELSE LET m == original_tensor.shape[1]
             n == original_tensor.shape[2]
             min_size ==
                 DTYPE_TO_SEMI_STRUCTURED_SPARSE_CONFIG[original_tensor.dtype].min_size
         IN  IF m < min_size \/ n < min_size
             THEN "unsupported-shape"
             ELSE "ok"

\* lines 284-330, in order
validate(original_tensor, mask) ==
    IF mask = "None" THEN "missing-mask"
    ELSE IF ~original_tensor.is_cuda THEN "unsupported-device"
    ELSE IF original_tensor.dim # 2 THEN "unsupported-rank"
    ELSE IF original_tensor.dtype \notin DOMAIN DTYPE_TO_SEMI_STRUCTURED_SPARSE_CONFIG
    THEN "unsupported-dtype"
    ELSE LET m == original_tensor.shape[1]
             n == original_tensor.shape[2]
             min_size ==
                 DTYPE_TO_SEMI_STRUCTURED_SPARSE_CONFIG[original_tensor.dtype].min_size
         IN  IF m < min_size \/ m % min_size # 0
                \/ n < min_size \/ n % min_size # 0
             THEN "unsupported-shape"
             ELSE "ok"

\* lines 335-340
compressed_size(original_tensor) ==
    LET nelement == original_tensor.shape[1] * original_tensor.shape[2]
        original_size_bytes == nelement * element_size(original_tensor.dtype)
        compression_factor ==
            DTYPE_TO_SEMI_STRUCTURED_SPARSE_CONFIG[original_tensor.dtype].compression_factor
        compressed_size_bytes == (original_size_bytes * compression_factor) \div 16
    IN  compressed_size_bytes \div element_size(original_tensor.dtype)

\* an allocator that hands out the first buffer again
empty_reuses_first(size, dtype) ==
    [ref |-> 1,
     buf |-> [len |-> size, dtype |-> dtype, kept |-> "", meta |-> ""]]

\* torch.empty((size,), dtype=...): a fresh buffer
empty(size, dtype) ==
    [ref |-> Len(bufs) + 1,
     buf |-> [len |-> size, dtype |-> dtype, kept |-> "", meta |-> ""]]

CtorOut(out, newbufs, allocs) == [out |-> out, bufs |-> newbufs, allocs |-> allocs]

\* lines 274-362
to_sparse_semi_structured(original_tensor, mask, transposed, kernelOk) ==
    LET check == validate(original_tensor, mask)
        m == original_tensor.shape[1]
        n == original_tensor.shape[2]
        compressed_tensor == empty(compressed_size(original_tensor),
                                   original_tensor.dtype)
        placeholder == [kind |-> "ones", id |-> 0, t |-> FALSE]
        specified ==
            IF mask = "half"
            THEN [kind |-> "view", buf |-> 0, start |-> 0, stop |-> (m * n) \div 2,
                  shape |-> <<m, n \div 2>>, dtype |-> original_tensor.dtype]
            ELSE ViewError
        maskarg == [kind |-> "view", buf |-> 0, start |-> 0, stop |-> m * n,
                    shape |-> <<m, n>>, dtype |-> "bool"]
        k == structured_sparse_linear(placeholder, specified, maskarg,
                                      Absent, kernelOk, insts)
        filled == [compressed_tensor.buf EXCEPT !.kept = "specified",
                                                !.meta = "meta"]
    IN  IF check # "ok"
        THEN CtorOut(Out(check, NoResult, <<>>, NoPayload, <<>>), bufs, 0)
        ELSE IF k.status # "ok"
        THEN CtorOut(Out(k.status, NoResult, k.calls, NoPayload, <<>>), bufs, 1)
        ELSE CtorOut(
                 Out("ok", InstResult(Len(insts) + 1), k.calls, NoPayload,
                     <<Created(SparseSemiStructuredTensor(
                                   original_tensor.shape, compressed_tensor.ref,
                                   transposed),
                               "construct", 0)>>),
                 Append(bufs, filled), 1)

(* ------------------------------- state -------------------------------- *)
Last(op, args, kwargs, tensor, mask, flag, out, allocs) ==
    [op |-> op, args |-> args, kwargs |-> kwargs, tensor |-> tensor,
     mask |-> mask, flag |-> flag, status |-> out.status,
     result |-> out.result, calls |-> out.calls, payload |-> out.payload,
     created |-> Len(out.created), allocs |-> allocs]

Init ==
    /\ insts = <<>>
    /\ derived = <<>>
    /\ bufs = <<>>
    /\ warned = FALSE
    /\ last = Last("init", <<>>, <<>>, NoTensor, "", "",
                   Out("ok", NoResult, <<>>, NoPayload, <<>>), 0)

\* provenance of a new instance (not program state: how it came to be)
Provenance(c, j) ==
    IF c.op = "construct"
    THEN [op |-> c.op, from |-> 0, root |-> j, nT |-> 0]
    ELSE [op |-> c.op, from |-> c.from, root |-> derived[c.from].root,
          nT |-> derived[c.from].nT + (IF c.op = "t" THEN 1 ELSE 0)]

Register(created) ==
    /\ insts' = insts \o [i \in 1..Len(created) |-> created[i].inst]
    /\ derived' = derived \o
           [i \in 1..Len(created) |-> Provenance(created[i], Len(insts) + i)]

\* an error raised by an operation propagates to the caller: the run ends there
Running == last.status = "ok"

Dispatch(func, args, kwargs, kernelOk, cap) ==
    /\ Running
    /\ \E i \in 1..Len(args \o kwargs) : isinstance((args \o kwargs)[i])
    /\ \E out \in {torch_dispatch(func, args, kwargs, kernelOk)} :
        /\ Len(insts) + Len(out.created) <= cap
        /\ Register(out.created)
        /\ last' = Last(func, args, kwargs, NoTensor, "", "", out, 0)
    /\ UNCHANGED <<bufs, warned>>

(* ------------------------------- inputs ------------------------------- *)
Refs == {SparseRef(i) : i \in DOMAIN insts}

MatOperands == {Dense(1)} \cup Refs

OtherFuncs == {"aten.add.Tensor", KernelFunc}

Masks == {"None", "half", "bad"}

Dims == {63, 64, 127, 128, 192, 256}

CtorTensors ==
    {Tensor(c, d, dt, <<m, n>>) :
        c \in BOOLEAN, d \in {1, 2}, dt \in {"float16", "int8", "float32"},
        m \in Dims, n \in Dims}

MainTensors ==
    {Tensor(TRUE, 2, "float16", <<64, 128>>), Tensor(TRUE, 2, "int8", <<128, 128>>),
     Tensor(FALSE, 2, "int8", <<128, 128>>)}

(* ------------------------------- actions ------------------------------ *)
Construct(tensors, instCap, bufCap) ==
    /\ Running
    /\ Len(insts) < instCap
    /\ Len(bufs) < bufCap
    /\ \E original_tensor \in tensors, mask \in Masks, transposed \in PyFlags,
          kernelOk \in BOOLEAN :
        \E r \in {to_sparse_semi_structured(original_tensor, mask, transposed,
                                            kernelOk)} :
            /\ Register(r.out.created)
            /\ bufs' = r.bufs
            /\ warned' = TRUE
            /\ last' = Last("to_sparse_semi_structured", <<>>, <<>>,
                            original_tensor, mask, transposed, r.out, r.allocs)

ToSparse == Construct(MainTensors, MaxInst, MaxBufs)

ToSparseWide == Construct(CtorTensors, MaxCtorInst, MaxCtorInst)

ToSparseMat == Construct(MainTensors, MaxMatInst, MaxMatInst)

DispatchDetach ==
    \E a \in Refs : Dispatch("aten.detach.default", <<a>>, <<>>, TRUE, MaxInst)

DispatchT ==
    \E a \in Refs : Dispatch("aten.t.default", <<a>>, <<>>, TRUE, MaxInst)

DispatchValues ==
    \E a \in Refs : Dispatch("aten.values.default", <<a>>, <<>>, TRUE, MaxInst)

DispatchIndices ==
    \E a \in Refs : Dispatch("aten.indices.default", <<a>>, <<>>, TRUE, MaxInst)

DispatchAddmm ==
    \E bias \in {Dense(2)} \cup Refs, a \in MatOperands, b \in MatOperands,
       kernelOk \in BOOLEAN :
        Dispatch("aten.addmm.default", <<bias, a, b>>, <<>>, kernelOk, MaxMatInst)

DispatchMm ==
    \E a \in MatOperands, b \in MatOperands, kernelOk \in BOOLEAN :
        Dispatch("aten.mm.default", <<a, b>>, <<>>, kernelOk, MaxMatInst)

DispatchLinear ==
    \E a \in MatOperands, w \in MatOperands,
       rest \in {<<>>, <<NoneArg>>, <<Dense(2)>>}, kernelOk \in BOOLEAN :
        Dispatch("aten.linear.default", <<a, w>> \o rest, <<>>, kernelOk,
                 MaxMatInst)

DispatchOther ==
    \E func \in OtherFuncs, a \in MatOperands,
       rest \in {<<>>} \cup {<<b>> : b \in MatOperands},
       kwargs \in {<<>>, <<Dense(2)>>} :
        Dispatch(func, <<a>> \o rest, kwargs, TRUE, MaxMatInst)

\* construction, the bookkeeping operators and the two views
Next ==
    \/ ToSparse
    \/ DispatchDetach
    \/ DispatchT
    \/ DispatchValues
    \/ DispatchIndices

Spec == Init /\ [][Next]_vars

\* construction over the wide input set, and the two views
NextCtor ==
    \/ ToSparseWide
    \/ DispatchValues
    \/ DispatchIndices

SpecCtor == Init /\ [][NextCtor]_vars

\* construction and the operators that reach the kernel or the error
NextMatmul ==
    \/ ToSparseMat
    \/ DispatchAddmm
    \/ DispatchMm
    \/ DispatchLinear
    \/ DispatchOther

SpecMatmul == Init /\ [][NextMatmul]_vars

(* ------------------------------- claims ------------------------------- *)
CtorOp == "to_sparse_semi_structured"

Flipped(b) == [b EXCEPT !.t = ~b.t]

\* C1: mm(A, B) with A compressed, A.transposed = false and B dense makes
\* exactly one kernel call kernel(B.t(), values(A), indices(A)) and returns the
\* transpose of its result; mm(C, A) with C dense, A compressed and
\* A.transposed = true makes exactly one kernel call
\* kernel(C, values(A), indices(A)) and returns its result as it is.
C1_MatmulOrientation ==
    last.op = "aten.mm.default" =>
        LET A == last.args[1]
            B == last.args[2]
        IN  /\ (isinstance(A) /\ B.kind = "dense"
                   /\ insts[A.id].transposed = "False") =>
                /\ last.status \in {"ok", "kernel-error"}
                /\ last.calls = <<KernelCall(Flipped(B), values(insts[A.id]),
                                             indices(insts[A.id]), Absent)>>
                /\ last.status = "ok" =>
                       /\ last.result.kind = "dense"
                       /\ last.result.t = TRUE
            /\ (A.kind = "dense" /\ isinstance(B)
                   /\ insts[B.id].transposed = "True") =>
                /\ last.status \in {"ok", "kernel-error"}
                /\ last.calls = <<KernelCall(A, values(insts[B.id]),
                                             indices(insts[B.id]), Absent)>>
                /\ last.status = "ok" =>
                       /\ last.result.kind = "dense"
                       /\ last.result.t = FALSE

C1_Witness ==
    /\ last.op = "aten.mm.default"
    /\ last.status = "ok"
    /\ isinstance(last.args[1])
    /\ last.args[2].kind = "dense"
    /\ insts[last.args[1].id].transposed = "False"
    /\ last.result.t = TRUE

\* C2: every transpose returns a new instance with the negated flag, the same
\* buffer reference and the same logical shape; transpose(transpose(x)) has
\* x's flag and x's buffer; after n transposes the flag is
\* x.transposed XOR (n mod 2).
C2_TransposeComposition ==
    \A j \in DOMAIN insts :
        derived[j].op = "t" =>
            LET p == derived[j].from
                r == derived[j].root
            IN  /\ p # j
                /\ insts[j].transposed = PyNot(insts[p].transposed)
                /\ insts[j].compressed_tensor = insts[p].compressed_tensor
                /\ insts[j].shape = insts[p].shape
                /\ derived[p].op = "t" =>
                       /\ insts[j].transposed =
                              insts[derived[p].from].transposed
                       /\ insts[j].compressed_tensor =
                              insts[derived[p].from].compressed_tensor
                /\ insts[j].transposed =
                       (IF derived[j].nT % 2 = 1
                        THEN PyNot(insts[r].transposed)
                        ELSE insts[r].transposed)

\* C3: detach(x) is a new instance with x's buffer reference, x's logical
\* shape and x's transposed flag; x and the buffers are left as they were.
C3_DetachPreserves ==
    [][(last'.op = "aten.detach.default" /\ last'.status = "ok") =>
           LET x == last'.args[1].id
               j == last'.result.ref
           IN  /\ last'.result.kind = "instance"
               /\ j = Len(insts) + 1
               /\ Len(insts') = j
               /\ insts'[j].compressed_tensor = insts[x].compressed_tensor
               /\ insts'[j].shape = insts[x].shape
               /\ insts'[j].transposed = insts[x].transposed
               /\ \A i \in DOMAIN insts : insts'[i] = insts[i]
               /\ bufs' = bufs
               /\ last'.calls = <<>>]_vars

C3_Witness ==
    /\ last.op = "aten.detach.default"
    /\ last.status = "ok"
    /\ last.result.ref # last.args[1].id
    /\ insts[last.args[1].id].transposed = "True"
    /\ insts[last.result.ref].transposed = "True"

ValidatedInput ==
    /\ last.op = CtorOp
    /\ last.mask # "None"
    /\ last.tensor.is_cuda
    /\ last.tensor.dim = 2
    /\ last.tensor.dtype \in {"float16", "int8"}

BlockOf(dtype) == IF dtype = "float16" THEN 64 ELSE 128

Rejects(dtype, shape) ==
    (last.op = CtorOp /\ last.mask # "None"
        /\ last.tensor = Tensor(TRUE, 2, dtype, shape))
    => last.status = "unsupported-shape"

Accepts(dtype, shape) ==
    (last.op = CtorOp /\ last.mask # "None"
        /\ last.tensor = Tensor(TRUE, 2, dtype, shape))
    => last.status \in {"ok", "view-error", "kernel-error"}

\* C4: with a mask, a CUDA rank-2 matrix of a supported dtype and shape (m, k),
\* to_sparse_semi_structured fails with unsupported-shape exactly when m or k
\* is below, or not a multiple of, the dtype's block size (64 for float16, 128
\* for int8); (63,128) float16 and (127,128) int8 fail, (64,64) float16 and
\* (128,128) int8 pass validation.
C4_ShapeValidation ==
    /\ ValidatedInput =>
           LET m == last.tensor.shape[1]
               k == last.tensor.shape[2]
               b == BlockOf(last.tensor.dtype)
           IN  (last.status = "unsupported-shape")
                   <=> (m < b \/ m % b # 0 \/ k < b \/ k % b # 0)
    /\ Rejects("float16", <<63, 128>>)
    /\ Rejects("int8", <<127, 128>>)
    /\ Accepts("float16", <<64, 64>>)
    /\ Accepts("int8", <<128, 128>>)

C4_Witness ==
    /\ ValidatedInput
    /\ last.tensor.dtype = "int8"
    /\ last.tensor.shape = <<192, 128>>
    /\ last.status = "unsupported-shape"

\* C5: to_sparse_semi_structured with mask = None fails with missing-mask
\* whatever the other arguments are; it allocates no buffer, creates no
\* instance and makes no kernel call.
C5_MissingMask ==
    [][(last'.op = CtorOp /\ last'.mask = "None") =>
           /\ last'.status = "missing-mask"
           /\ last'.calls = <<>>
           /\ last'.allocs = 0
           /\ bufs' = bufs
           /\ insts' = insts]_vars

C5_Witness ==
    /\ last.op = CtorOp
    /\ last.mask = "None"
    /\ ~last.tensor.is_cuda
    /\ last.tensor.dim = 1
    /\ last.tensor.dtype = "float32"
    /\ last.tensor.shape = <<63, 127>>
    /\ last.status = "missing-mask"

RendersOperand(r, a) ==
    IF isinstance(a)
    THEN /\ r.kind = "SparseSemiStructuredTensor"
         /\ r.shape = insts[a.id].shape
         /\ r.transposed = insts[a.id].transposed
         /\ r.values.buf = insts[a.id].compressed_tensor
         /\ r.metadata.buf = insts[a.id].compressed_tensor
    ELSE /\ r.kind = a.kind
         /\ r.id = a.id

FailsClosed ==
    /\ last.status = "unsupported-operator"
    /\ last.result = NoResult
    /\ last.calls = <<>>
    /\ last.created = 0

\* C6 as stated: an operator outside the seven handled ones fails with
\* unsupported-operator, the payload names the operator and renders every
\* operand, no kernel call is made and no instance is produced.
C6_RendersEveryOperand ==
    last.op \in OtherFuncs =>
        LET operands == last.args \o last.kwargs
        IN  /\ FailsClosed
            /\ last.payload.func = last.op
            /\ Len(last.payload.args) = Len(operands)
            /\ \A i \in 1..Len(operands) :
                   RendersOperand(last.payload.args[i], operands[i])

\* C6, amended: an operator outside the seven handled ones fails with
\* unsupported-operator, the payload names the operator and renders every
\* positional operand (operands passed by keyword are not rendered), no
\* kernel call is made and no instance is produced.
C6_RendersPositionalOperands ==
    last.op \in OtherFuncs =>
        /\ FailsClosed
        /\ last.payload.func = last.op
        /\ Len(last.payload.args) = Len(last.args)
        /\ \A i \in 1..Len(last.args) :
               RendersOperand(last.payload.args[i], last.args[i])

C6_Witness ==
    /\ last.op = "aten.add.Tensor"
    /\ Len(last.args) = 2
    /\ last.args[1].kind = "dense"
    /\ isinstance(last.args[2])
    /\ last.kwargs # <<>>
    /\ last.status = "unsupported-operator"

WrongOrientation(left, right) ==
    \/ isinstance(left) /\ insts[left.id].transposed = "True"
    \/ isinstance(right) /\ insts[right.id].transposed = "False"

\* C7: for mm and addmm, a compressed left operand with transposed = true or
\* a compressed right operand with transposed = false makes the dispatcher
\* fail with unsupported-operator: no kernel call, no result.
C7_MismatchedParityFailsClosed ==
    /\ last.op = "aten.mm.default" =>
           (WrongOrientation(last.args[1], last.args[2]) =>
                /\ last.status = "unsupported-operator"
                /\ last.result = NoResult
                /\ last.calls = <<>>)
    /\ last.op = "aten.addmm.default" =>
           (WrongOrientation(last.args[2], last.args[3]) =>
                /\ last.status = "unsupported-operator"
                /\ last.result = NoResult
                /\ last.calls = <<>>)

C7_Witness ==
    /\ last.op = "aten.mm.default"
    /\ isinstance(last.args[1])
    /\ insts[last.args[1].id].transposed = "True"
    /\ last.args[2].kind = "dense"
    /\ last.status = "unsupported-operator"

\* C8: an instance built from a valid (m, k) matrix has a buffer of exactly
\* m*k*9/16 (float16) or m*k*10/16 (int8) elements; values() is the first
\* m*k/2 elements as (m, k/2); indices() is the rest as m rows of 16-bit
\* (float16) or 32-bit (int8) integers; the regions abut and cover the buffer;
\* a view's result does not depend on what was requested before it.
C8_BufferLayout ==
    /\ \A i \in DOMAIN insts :
           LET x == insts[i]
               m == x.shape[1]
               k == x.shape[2]
               b == bufs[x.compressed_tensor]
               v == values(x)
               w == indices(x)
               width == IF b.dtype = "int8" THEN 4 ELSE 1
           IN  /\ b.len * 16 = m * k * (IF b.dtype = "int8" THEN 10 ELSE 9)
               /\ (m * k) % 2 = 0
               /\ v.kind = "view" /\ w.kind = "view"
               /\ v.start = 0 /\ v.stop = (m * k) \div 2
               /\ v.shape = <<m, k \div 2>>
               /\ v.shape[1] * v.shape[2] = v.stop - v.start
               /\ w.start = v.stop /\ w.stop = b.len
               /\ w.shape[1] = m
               /\ w.dtype = (IF b.dtype = "int8" THEN "int32" ELSE "int16")
               /\ w.shape[1] * w.shape[2] * width = w.stop - w.start
    /\ last.op = "aten.values.default" =>
           LET x == insts[last.args[1].id]
           IN  /\ last.status = "ok"
               /\ last.result.view =
                      [kind |-> "view", buf |-> x.compressed_tensor,
                       start |-> 0, stop |-> (x.shape[1] * x.shape[2]) \div 2,
                       shape |-> <<x.shape[1], x.shape[2] \div 2>>,
                       dtype |-> bufs[x.compressed_tensor].dtype]
    /\ last.op = "aten.indices.default" =>
           LET x == insts[last.args[1].id]
               b == bufs[x.compressed_tensor]
               half == (x.shape[1] * x.shape[2]) \div 2
           IN  /\ last.status = "ok"
               /\ last.result.view =
                      [kind |-> "view", buf |-> x.compressed_tensor,
                       start |-> half, stop |-> b.len,
                       shape |-> <<x.shape[1],
                                   IF b.dtype = "int8"
                                   THEN x.shape[2] \div 32
                                   ELSE x.shape[2] \div 16>>,
                       dtype |-> IF b.dtype = "int8" THEN "int32" ELSE "int16"]

C8_Witness ==
    /\ last.op = "aten.indices.default"
    /\ last.status = "ok"
    /\ bufs[insts[last.args[1].id].compressed_tensor].dtype = "int8"
    /\ last.result.view.shape = <<128, 4>>

DenseOrNone(a) == a.kind \in {"dense", "None"}

SameBuffer(i, j) == insts[i].compressed_tensor = insts[j].compressed_tensor

DetachedFrom(i, j) == derived[i].op = "detach" /\ derived[i].from = j

\* C10 as stated: two distinct instances share a buffer only if one of them
\* was produced directly by detach from the other.
C10_AliasOnlyByDetach ==
    \A i \in DOMAIN insts, j \in DOMAIN insts :
        (i # j /\ SameBuffer(i, j)) => (DetachedFrom(i, j) \/ DetachedFrom(j, i))

\* C10, amended: two distinct instances share a buffer only if both descend,
\* through detach and transpose, from the same instance built by
\* to_sparse_semi_structured; every construction has a buffer of its own, and
\* detach and transpose both return an instance on their operand's buffer.
C10_AliasOnlyWithinFamily ==
    /\ \A i \in DOMAIN insts, j \in DOMAIN insts :
           SameBuffer(i, j) <=> (derived[i].root = derived[j].root)
    /\ \A i \in DOMAIN insts :
           /\ derived[i].op = "construct" => derived[i].root = i
           /\ derived[i].op \in {"detach", "t"} =>
                  /\ derived[i].from \in 1..(i - 1)
                  /\ derived[i].root = derived[derived[i].from].root
                  /\ SameBuffer(i, derived[i].from)

C10_Witness ==
    \E i \in DOMAIN insts, j \in DOMAIN insts, k \in DOMAIN insts :
        /\ derived[i].op = "construct"
        /\ derived[j].op = "construct"
        /\ i # j
        /\ ~SameBuffer(i, j)
        /\ derived[k].op = "t"
        /\ derived[k].from = i
        /\ SameBuffer(k, i)

====
